---- MODULE Spec2Model ----
(***************************************************************************)
(* A model of the route fetching of pam-client:                            *)
(*   src/src/engine/routing.ts      fetchRouteFeatureCollection            *)
(*   src/src/components/MapView.tsx MapViewInner (loadRoute, upsertRoute,  *)
(*                                  the imperative handle, the map effect) *)
(*                                                                         *)
(* Encoding.  An optional JavaScript value (undefined / a value) is a      *)
(* sequence of length 0 or 1: None, Some(v).  A coordinate [lng, lat] is a *)
(* pair of integers, the degrees multiplied by 100000.  Distances and      *)
(* durations are integers.  A string built by a template literal is the    *)
(* sequence of its pieces.                                                  *)
(***************************************************************************)
EXTENDS Integers, Sequences, FiniteSets, TLC

VARIABLES
    envToken,           \* import.meta.env.VITE_MAPBOX_TOKEN (build configuration)
    mapboxAccessToken,  \* mapboxgl.accessToken
    phase,              \* "constructed" | "mounted" | "unmounted" (React life cycle)
    mapRef,             \* mapRef.current: NoMap (null) or TheMap (the live map)
    didCancelRef,       \* didCancelRef.current
    styleLoaded,        \* whether 'style.load' has fired on the current map
    routeSource,        \* data of the source ROUTE_SOURCE_ID of the current map
    routeLayer,         \* whether the layer ROUTE_LAYER_ID exists on the current map
    routeCalls,         \* what upsertRoute has called on the current map
    routePointsRef,     \* routePointsRef.current: [start, end]
    buildingCountRef,   \* buildingCountRef.current
    buildingRegistryRef, \* buildingRegistryRef.current: the id and colour of each
    mapBuildings,       \* ids of the buildings addRandomBuilding put on the current map
    startMarkerRef,     \* startMarkerRef.current
    endMarkerRef,       \* endMarkerRef.current
    calls,              \* the invocations of fetchRouteFeatureCollection, in order
    loads               \* the invocations of loadRoute, in order of issuance: the fetch
                        \* of each, whether its map was removed, whether it was in
                        \* flight at a resetRoute that no request has followed, how
                        \* it settled, its upsertRoute calls

vars == <<envToken, mapboxAccessToken, phase, mapRef, didCancelRef,
          buildingCountRef, buildingRegistryRef, mapBuildings,
          styleLoaded, routeSource, routeLayer, routeCalls, routePointsRef,
          startMarkerRef, endMarkerRef, calls, loads>>

buildingVars == <<buildingCountRef, buildingRegistryRef, mapBuildings>>

componentVars == <<mapboxAccessToken, phase, mapRef, didCancelRef, buildingVars,
                   styleLoaded, routeSource, routeLayer, routeCalls, routePointsRef,
                   startMarkerRef, endMarkerRef, loads>>

\* ------------------------------------------------------------------ bounds

\* Most loadRoute invocations in one behaviour of the component.
MaxLoads == 2

\* Most direct invocations of fetchRouteFeatureCollection in one behaviour.
MaxCalls == 2

\* Most buildings added by addRandomBuilding in one behaviour.
MaxBuildings == 1

\* ------------------------------------------------------------------ values

None == <<>>

Some(v) == <<v>>

NoMap == "null"

TheMap == "map"

CARRINGTON_CENTER == <<15120670, -3386545>>

OPERA_CENTER == <<15121530, -3385680>>

LineFeatureCollection(properties, coordinates) ==
    [type |-> "FeatureCollection",
     features |-> << [type |-> "Feature",
                      properties |-> properties,
                      geometry |-> [type |-> "LineString",
                                    coordinates |-> coordinates]] >>]

DEFAULT_ROUTE ==
    LineFeatureCollection({}, <<CARRINGTON_CENTER, <<15121000, -3386150>>, OPERA_CENTER>>)

\* The coordinates of the line a feature collection draws.
LineOf(fc) == fc.features[1].geometry.coordinates

\* ------------------------------------------------ the directions transport

\* Coordinates a user may click, or a caller may pass as endpoints.
PointA == <<15120800, -3386400>>

PointB == <<15121200, -3386000>>

\* MapboxDirectionsRoute: coordinates is None when geometry or
\* geometry.coordinates is missing from the JSON.
DirectionsRoute(coordinates, distance, duration) ==
    [coordinates |-> coordinates, distance |-> distance, duration |-> duration]

\* MapboxDirectionsResponse: { routes?, code?, message? }.
DirectionsBody(routes, code, message) ==
    [routes |-> routes, code |-> code, message |-> message]

\* What fetch() settles with: a rejection (network failure), or a Response with
\* a status and a status text.
NetworkFailure == [rejected |-> TRUE, status |-> 0, statusText |-> ""]

HttpResponse(status, statusText) ==
    [rejected |-> FALSE, status |-> status, statusText |-> statusText]

\* Bodies with a route whose geometry has one, two and three points.
OnePointBody ==
    DirectionsBody(Some(<<DirectionsRoute(Some(<<PointA>>), 0, 0)>>), Some("Ok"), None)

TwoPointBody ==
    DirectionsBody(Some(<<DirectionsRoute(Some(<<PointA, PointB>>), 570, 410)>>),
                   Some("Ok"), None)

ThreePointBody ==
    DirectionsBody(Some(<<DirectionsRoute(Some(<<CARRINGTON_CENTER, PointA, OPERA_CENTER>>),
                                          1480, 1070),
                          DirectionsRoute(Some(<<CARRINGTON_CENTER, OPERA_CENTER>>),
                                          1300, 900)>>),
                   Some("Ok"), None)

\* Bodies without a route geometry: no routes array, an empty one, a route
\* without geometry, a route with no coordinates.
NoRouteBodies ==
    { DirectionsBody(None, Some("NoRoute"), Some("No route found")),
      DirectionsBody(Some(<< >>), Some("NoRoute"), None),
      DirectionsBody(Some(<< >>), Some("NoSegment"), Some("No segment found")),
      DirectionsBody(None, None, None),
      DirectionsBody(Some(<<DirectionsRoute(None, 10, 20)>>), Some("Ok"), None),
      DirectionsBody(Some(<<DirectionsRoute(Some(<< >>), 10, 20)>>), Some("Ok"),
                     Some("Empty geometry")) }

RouteBodies == NoRouteBodies \cup {OnePointBody, TwoPointBody, ThreePointBody}

DirectionsResponses ==
    { NetworkFailure, HttpResponse(404, "Not Found"), HttpResponse(200, "OK") }

\* What response.json() settles with: a rejection (None: the body is not JSON),
\* or the parsed body.
ResponseBodies == {None} \cup { Some(b) : b \in RouteBodies }

\* The bodies the transport of the component answers with: one of each kind.
LoadBodies ==
    { None, Some(DirectionsBody(None, Some("NoRoute"), Some("No route found"))),
      Some(OnePointBody), Some(TwoPointBody), Some(ThreePointBody) }

\* Response.ok of the Fetch standard: the status is in the range 200-299.
ResponseOk(response) == response.status >= 200 /\ response.status <= 299

\* ------------------------------------------- fetchRouteFeatureCollection

Digit == <<"0", "1", "2", "3", "4", "5", "6", "7", "8", "9">>

\* A number as a template literal prints it: its decimal digits.
RECURSIVE Decimal(_)
Decimal(n) ==
    IF n < 10 THEN <<Digit[n + 1]>>
    ELSE Decimal(n \div 10) \o <<Digit[(n % 10) + 1]>>

JsError(name, message) == [name |-> name, message |-> message]

Returned(value) == [ok |-> TRUE, value |-> Some(value), error |-> None]

Thrown(error) == [ok |-> FALSE, value |-> None, error |-> Some(error)]

MissingTokenError ==
    JsError("Error", <<"Missing Mapbox access token (VITE_MAPBOX_TOKEN).">>)

RequestFailedError(response) ==
    JsError("Error", <<"Mapbox directions request failed (">>
                       \o Decimal(response.status)
                       \o <<"): ", response.statusText>>)

NoGeometryMessage == <<"Mapbox did not return a route geometry for the request.">>

\* Mutant: the generic message, whatever the server said.
NoRouteErrorGeneric(data) == JsError("Error", NoGeometryMessage)

\* data.message ?? '...'
NoRouteError(data) ==
    JsError("Error", IF data.message # None THEN <<data.message[1]>> ELSE NoGeometryMessage)

\* What the runtime rejects with: fetch() on a network failure, and
\* response.json() on a body that is not JSON.
FetchRejection == JsError("TypeError", <<"Failed to fetch">>)

JsonRejection == JsError("SyntaxError", <<"Unexpected token in JSON">>)

\* options.accessToken ?? import.meta.env.VITE_MAPBOX_TOKEN
AccessTokenOf(options) ==
    IF options.accessToken # None THEN options.accessToken ELSE envToken

\* Mutant: only an absent token counts as missing.
FalsyUndefinedOnly(token) == token = None

\* !accessToken: undefined and the empty string are falsy.
Falsy(token) == token = None \/ token = Some("")

\* options.profile ?? 'walking'
ProfileOf(options) ==
    IF options.profile # None THEN options.profile[1] ELSE "walking"

DirectionsUrl(from, to, profile, accessToken) ==
    [base |-> "https://api.mapbox.com/directions/v5/mapbox/",
     profile |-> profile, from |-> from, to |-> to,
     geometries |-> "geojson", overview |-> "full",
     alternatives |-> "false", steps |-> "false",
     access_token |-> accessToken]

\* Mutant: the last route of the body instead of the first.
FirstRouteLast(data) ==
    IF data.routes # None /\ Len(data.routes[1]) >= 1
    THEN Some(data.routes[1][Len(data.routes[1])]) ELSE None

\* data.routes?.[0]
FirstRoute(data) ==
    IF data.routes # None /\ Len(data.routes[1]) >= 1
    THEN Some(data.routes[1][1]) ELSE None

\* !firstRoute?.geometry?.coordinates?.length
NoGeometry(firstRoute) ==
    \/ firstRoute = None
    \/ firstRoute[1].coordinates = None
    \/ Len(firstRoute[1].coordinates[1]) = 0

\* Mutant: the coordinates are collected in a list shared by the invocations,
\* so a result after the first successful one carries them twice.
RouteResultOfSharedList(firstRoute) ==
    LET coordinates ==
            IF \E c \in DOMAIN calls : calls[c].outcome # None /\ calls[c].outcome[1].ok
            THEN firstRoute.coordinates[1] \o firstRoute.coordinates[1]
            ELSE firstRoute.coordinates[1]
    IN  [featureCollection |->
             LineFeatureCollection({<<"distance", firstRoute.distance>>,
                                    <<"duration", firstRoute.duration>>},
                                   coordinates),
         distance |-> firstRoute.distance,
         duration |-> firstRoute.duration]

RouteResultOf(firstRoute) ==
    [featureCollection |->
         LineFeatureCollection({<<"distance", firstRoute.distance>>,
                                <<"duration", firstRoute.duration>>},
                               firstRoute.coordinates[1]),
     distance |-> firstRoute.distance,
     duration |-> firstRoute.duration]

\* The invocation up to its first await: the token check, the URL, fetch(url).
FetchBegin(from, to, options) ==
    LET accessToken == AccessTokenOf(options)
        base == [from |-> from, to |-> to, options |-> options,
                 httpRequests |-> << >>, response |-> None, bodyReads |-> 0,
                 body |-> None]
    IN  IF Falsy(accessToken)
        THEN base @@ [pc |-> "done", outcome |-> Some(Thrown(MissingTokenError))]
        ELSE [base EXCEPT !.httpRequests =
                  <<DirectionsUrl(from, to, ProfileOf(options), accessToken[1])>>]
             @@ [pc |-> "awaitFetch", outcome |-> None]

\* Mutant: a rejected or non-success fetch is issued again.
FetchOnResponseRetried(call, response) ==
    IF response.rejected \/ ~ResponseOk(response)
    THEN [call EXCEPT !.httpRequests = Append(@, @[1])]
    ELSE [call EXCEPT !.pc = "awaitJson", !.response = Some(response),
                      !.bodyReads = @ + 1]

\* Mutant: no response.ok check, the body of every response is read.
FetchOnResponseUnchecked(call, response) ==
    IF response.rejected
    THEN [call EXCEPT !.pc = "done", !.outcome = Some(Thrown(FetchRejection))]
    ELSE [call EXCEPT !.pc = "awaitJson", !.response = Some(response),
                      !.bodyReads = @ + 1]

\* From the settling of fetch() to the next await: the response.ok check,
\* then response.json().
FetchOnResponse(call, response) ==
    IF response.rejected
    THEN [call EXCEPT !.pc = "done", !.outcome = Some(Thrown(FetchRejection))]
    ELSE IF ~ResponseOk(response)
    THEN [call EXCEPT !.pc = "done", !.response = Some(response),
                      !.outcome = Some(Thrown(RequestFailedError(response)))]
    ELSE [call EXCEPT !.pc = "awaitJson", !.response = Some(response),
                      !.bodyReads = @ + 1]

\* From the settling of response.json() to the return.
FetchOnBody(call, body) ==
    IF body = None
    THEN [call EXCEPT !.pc = "done", !.outcome = Some(Thrown(JsonRejection))]
    ELSE LET data == body[1]
             firstRoute == FirstRoute(data)
         IN  IF NoGeometry(firstRoute)
             THEN [call EXCEPT !.pc = "done", !.body = body,
                               !.outcome = Some(Thrown(NoRouteError(data)))]
             ELSE [call EXCEPT !.pc = "done", !.body = body,
                               !.outcome = Some(Returned(RouteResultOf(firstRoute[1])))]

\* ---------------------------------------------------------------- buildings

\* `${prefix}${n}`: the id of a building.
BuildingId(prefix, n) == <<prefix, n>>

\* INITIAL_BUILDINGS.map((b) => ({ id: b.id, color: b.color, fc: b.fc })): the
\* footprints are left out, no handle method reads them.
INITIAL_BUILDINGS ==
    << [id |-> BuildingId("carrington-", 1), color |-> "#4F46E5"],
       [id |-> BuildingId("carrington-", 2), color |-> "#22C55E"],
       [id |-> BuildingId("carrington-", 3), color |-> "#EAB308"],
       [id |-> BuildingId("carrington-", 4), color |-> "#F97316"],
       [id |-> BuildingId("carrington-", 5), color |-> "#0EA5E9"],
       [id |-> BuildingId("carrington-", 6), color |-> "#14B8A6"] >>

\* The colour addRandomBuilding draws: the first of its five.
RandomColors == {"#6366F1"}

\* ------------------------------------------------------------ initial state

\* A map on which upsertRoute has not run: no addSource(ROUTE_SOURCE_ID), no
\* addLayer of ROUTE_LAYER_ID, no data passed.
NoRouteCalls == [addSource |-> 0, addLayer |-> 0, latest |-> None]

\* The state after the component is constructed and before its effect runs.
\* The build configuration either lacks the token, has an empty one, or has one.
Init ==
    /\ envToken \in {None, Some(""), Some("pk.env")}
    /\ mapboxAccessToken = None
    /\ phase = "constructed"
    /\ mapRef = NoMap
    /\ didCancelRef = FALSE
    /\ styleLoaded = FALSE
    /\ routeSource = None
    /\ routeLayer = FALSE
    /\ routeCalls = NoRouteCalls
    /\ buildingCountRef = Len(INITIAL_BUILDINGS)
    /\ buildingRegistryRef = INITIAL_BUILDINGS
    /\ mapBuildings = {}
    /\ routePointsRef = [start |-> None, end |-> None]
    /\ startMarkerRef = None
    /\ endMarkerRef = None
    /\ calls = << >>
    /\ loads = << >>

\* --------------------------- fetchRouteFeatureCollection called on its own

\* The arguments a caller of the exported function passes.
FetchInputs ==
    { [from |-> CARRINGTON_CENTER, to |-> OPERA_CENTER,
       options |-> [profile |-> None, accessToken |-> None]],
      [from |-> PointA, to |-> PointB,
       options |-> [profile |-> Some("cycling"), accessToken |-> Some("pk.opt")]],
      [from |-> PointB, to |-> PointA,
       options |-> [profile |-> None, accessToken |-> Some("")]],
      [from |-> CARRINGTON_CENTER, to |-> OPERA_CENTER,
       options |-> [profile |-> Some("walking"), accessToken |-> Some("pk.opt")]] }

\* A caller invokes fetchRouteFeatureCollection(from, to, options).
DirectCall(in) ==
    /\ Len(calls) < MaxCalls
    /\ calls' = Append(calls, FetchBegin(in.from, in.to, in.options))
    /\ UNCHANGED <<envToken, componentVars>>

\* fetch() settles for invocation i.
DirectFetchSettles(i, response) ==
    /\ calls[i].pc = "awaitFetch"
    /\ calls' = [calls EXCEPT ![i] = FetchOnResponse(calls[i], response)]
    /\ UNCHANGED <<envToken, componentVars>>

\* response.json() settles for invocation i.
DirectBodySettles(i, body) ==
    /\ calls[i].pc = "awaitJson"
    /\ calls' = [calls EXCEPT ![i] = FetchOnBody(calls[i], body)]
    /\ UNCHANGED <<envToken, componentVars>>

FetchNext ==
    \/ \E in \in FetchInputs : DirectCall(in)
    \/ \E i \in DOMAIN calls, response \in DirectionsResponses :
           DirectFetchSettles(i, response)
    \/ \E i \in DOMAIN calls, body \in ResponseBodies : DirectBodySettles(i, body)

SpecFetch == Init /\ [][FetchNext]_vars

\* ------------------------------------------------------------- the component

\* new mapboxgl.Marker(...).setLngLat(lngLat).addTo(map): onMap tells whether
\* the map the marker was added to is still the live one.
Marker(lngLat, label) == [lngLat |-> lngLat, label |-> label, onMap |-> TRUE]

\* map.remove(): what a marker reference holds once its map is removed.
AfterMapRemove(markerRef) ==
    IF markerRef = None THEN None ELSE Some([markerRef[1] EXCEPT !.onMap = FALSE])

\* map.remove(): the invocations of loadRoute issued so far have lost their map,
\* and with it what resetRoute did on that map.
LoadsAfterMapRemove ==
    [i \in DOMAIN loads |-> [loads[i] EXCEPT !.mapRemoved = TRUE,
                                             !.resetSince = FALSE]]

\* resetRoute() ran on the current map: the pending invocations of loadRoute
\* were in flight when it was called. resetRoute does nothing to them.
LoadsAfterReset ==
    [i \in DOMAIN loads |->
        IF loads[i].settled = "pending"
        THEN [loads[i] EXCEPT !.resetSince = TRUE] ELSE loads[i]]

\* A new request is issued: no request is any longer in flight since the
\* latest resetRoute with no request after it.
LoadsBeforeIssue ==
    [i \in DOMAIN loads |-> [loads[i] EXCEPT !.resetSince = FALSE]]

\* clearMarker(markerRef): the new value of markerRef.current.
clearMarker(markerRef) == None

\* placeMarker(markerRef, lngLat, label, color): the new value of
\* markerRef.current.
placeMarker(markerRef, lngLat, label) ==
    IF mapRef = NoMap THEN markerRef ELSE Some(Marker(lngLat, label))

\* Mutant: an existing source keeps its data.
upsertRouteAddOnly(routeFc) ==
    IF mapRef = NoMap
    THEN UNCHANGED <<routeSource, routeLayer, routeCalls>>
    ELSE /\ routeSource' = (IF routeSource = None THEN Some(routeFc) ELSE routeSource)
         /\ routeLayer' = TRUE
         /\ routeCalls' = [addSource |-> routeCalls.addSource
                                             + (IF routeSource = None THEN 1 ELSE 0),
                           addLayer |-> routeCalls.addLayer
                                            + (IF routeLayer THEN 0 ELSE 1),
                           latest |-> Some(routeFc)]

\* Mutant: the source and the layer are added at every call, existing or not.
upsertRouteAlwaysAdds(routeFc) ==
    IF mapRef = NoMap
    THEN UNCHANGED <<routeSource, routeLayer, routeCalls>>
    ELSE /\ routeSource' = Some(routeFc)
         /\ routeLayer' = TRUE
         /\ routeCalls' = [addSource |-> routeCalls.addSource + 1,
                           addLayer |-> routeCalls.addLayer + 1,
                           latest |-> Some(routeFc)]

\* upsertRoute(routeFc): set the data of the route source when map.getSource
\* finds it, add the source otherwise; then add the line layer unless
\* map.getLayer finds it.
upsertRoute(routeFc) ==
    IF mapRef = NoMap
    THEN UNCHANGED <<routeSource, routeLayer, routeCalls>>
    ELSE /\ routeSource' = Some(routeFc)
         /\ routeLayer' = TRUE
         /\ routeCalls' = [addSource |-> routeCalls.addSource
                                             + (IF routeSource = None THEN 1 ELSE 0),
                           addLayer |-> routeCalls.addLayer
                                            + (IF routeLayer THEN 0 ELSE 1),
                           latest |-> Some(routeFc)]

\* Mutant: a result is also discarded when a later request has been issued.
DiscardedWhenSuperseded(i) == didCancelRef \/ i < Len(loads)

\* if (didCancelRef.current) return;
Discarded(i) == didCancelRef

\* Mutant: the fallback is the straight line between the two landmarks.
RouteToShowStraightFallback(outcome) ==
    IF outcome.ok THEN outcome.value[1].featureCollection
    ELSE LineFeatureCollection({}, <<CARRINGTON_CENTER, OPERA_CENTER>>)

\* What loadRoute passes to upsertRoute: the fetched collection in the try
\* block, DEFAULT_ROUTE in the catch block.
RouteToShow(outcome) ==
    IF outcome.ok THEN outcome.value[1].featureCollection ELSE DEFAULT_ROUTE

\* How the promise of loadRoute settles: the catch block handles every failure
\* of the fetch, so it fulfils.
LoadRouteSettlement(outcome) == "fulfilled"

\* loadRoute after its await: invocation i of base resumes with the outcome of
\* its fetchRouteFeatureCollection.
loadRouteResume(base, i, outcome) ==
    IF Discarded(i)
    THEN /\ loads' = [base EXCEPT ![i].settled = LoadRouteSettlement(outcome),
                                  ![i].resetSince = FALSE]
         /\ UNCHANGED <<routeSource, routeLayer, routeCalls>>
    ELSE /\ loads' = [base EXCEPT ![i].settled = LoadRouteSettlement(outcome),
                                  ![i].resetSince = FALSE,
                                  ![i].writes = @ + (IF mapRef = NoMap THEN 0 ELSE 1)]
         /\ upsertRoute(RouteToShow(outcome))

\* Mutant: loadRoute displays the fallback while its fetch is pending.
loadRouteFallbackWhilePending(from, to) ==
    LET call == FetchBegin(from, to, [profile |-> Some("walking"),
                                      accessToken |-> mapboxAccessToken])
        load == [call |-> Len(calls) + 1, mapRemoved |-> FALSE, resetSince |-> FALSE,
                 settled |-> "pending", writes |-> 0]
    IN  /\ calls' = Append(calls, call)
        /\ loads' = Append(loads, load)
        /\ upsertRoute(DEFAULT_ROUTE)

\* loadRoute(from, to) up to its await.
loadRoute(from, to) ==
    LET call == FetchBegin(from, to, [profile |-> Some("walking"),
                                      accessToken |-> mapboxAccessToken])
        load == [call |-> Len(calls) + 1, mapRemoved |-> FALSE, resetSince |-> FALSE,
                 settled |-> "pending", writes |-> 0]
    IN  /\ calls' = Append(calls, call)
        /\ IF call.pc = "done"
           THEN loadRouteResume(Append(LoadsBeforeIssue, load), Len(loads) + 1,
                                call.outcome[1])
           ELSE /\ loads' = Append(LoadsBeforeIssue, load)
                /\ UNCHANGED <<routeSource, routeLayer, routeCalls>>

\* The cleanup of the effect: set the flag, remove the handlers and the map.
\* It exists when the effect created a map.
Cleanup ==
    IF mapRef = NoMap
    THEN [didCancelRef |-> didCancelRef, startMarkerRef |-> startMarkerRef,
          endMarkerRef |-> endMarkerRef, loads |-> loads]
    ELSE [didCancelRef |-> TRUE, startMarkerRef |-> AfterMapRemove(startMarkerRef),
          endMarkerRef |-> AfterMapRemove(endMarkerRef), loads |-> LoadsAfterMapRemove]

\* The body of the effect: reset the flag, check the token, create the map.
RunEffect ==
    /\ didCancelRef' = FALSE
    /\ IF Falsy(envToken)
       THEN UNCHANGED <<mapboxAccessToken, mapRef>>
       ELSE /\ mapboxAccessToken' = envToken
            /\ mapRef' = TheMap
    /\ styleLoaded' = FALSE
    /\ routeSource' = None
    /\ routeLayer' = FALSE
    /\ routeCalls' = NoRouteCalls
    /\ mapBuildings' = {}

\* The first run of the effect, after the component is rendered.
EffectMount ==
    /\ phase = "constructed"
    /\ phase' = "mounted"
    /\ RunEffect
    /\ UNCHANGED <<envToken, buildingCountRef, buildingRegistryRef, routePointsRef,
                   startMarkerRef, endMarkerRef, calls, loads>>

\* center, zoom, style or onMapReady changed: React runs the cleanup of the
\* effect and the effect again in one commit; the old map is removed and a new
\* one is created.
EffectRerun ==
    /\ phase = "mounted"
    /\ RunEffect
    /\ startMarkerRef' = Cleanup.startMarkerRef
    /\ endMarkerRef' = Cleanup.endMarkerRef
    /\ loads' = Cleanup.loads
    /\ UNCHANGED <<envToken, buildingCountRef, buildingRegistryRef, phase, routePointsRef, calls>>

\* The component unmounts: the cleanup of the effect runs.
Unmount ==
    /\ phase = "mounted"
    /\ phase' = "unmounted"
    /\ didCancelRef' = Cleanup.didCancelRef
    /\ startMarkerRef' = Cleanup.startMarkerRef
    /\ endMarkerRef' = Cleanup.endMarkerRef
    /\ loads' = Cleanup.loads
    /\ mapRef' = NoMap
    /\ styleLoaded' = FALSE
    /\ routeSource' = None
    /\ routeLayer' = FALSE
    /\ routeCalls' = NoRouteCalls
    /\ mapBuildings' = {}
    /\ UNCHANGED <<envToken, buildingCountRef, buildingRegistryRef,
                   mapboxAccessToken, routePointsRef, calls>>

\* 'style.load' fires on the current map: handleStyleLoad.
handleStyleLoad ==
    /\ mapRef # NoMap
    /\ ~styleLoaded
    /\ Len(loads) < MaxLoads
    /\ styleLoaded' = TRUE
    /\ loadRoute(CARRINGTON_CENTER, OPERA_CENTER)
    /\ UNCHANGED <<envToken, buildingVars, mapboxAccessToken, phase, mapRef,
                   didCancelRef, routePointsRef, startMarkerRef, endMarkerRef>>

\* Mutant: a click that starts a selection leaves the B marker where it is.
handleMapClickStartKeepsMarkerB(clicked) ==
    /\ mapRef # NoMap
    /\ routePointsRef.start = None \/ routePointsRef.end # None
    /\ routePointsRef' = [start |-> Some(clicked), end |-> None]
    /\ startMarkerRef' = placeMarker(startMarkerRef, clicked, "A")
    /\ UNCHANGED <<envToken, buildingVars, mapboxAccessToken, phase, mapRef, endMarkerRef,
                   didCancelRef, styleLoaded, routeSource, routeLayer, routeCalls, calls, loads>>

\* 'click' fires on the current map with no point A, or with both points:
\* start a new selection.
handleMapClickStart(clicked) ==
    /\ mapRef # NoMap
    /\ routePointsRef.start = None \/ routePointsRef.end # None
    /\ routePointsRef' = [start |-> Some(clicked), end |-> None]
    /\ startMarkerRef' = placeMarker(startMarkerRef, clicked, "A")
    /\ endMarkerRef' = clearMarker(endMarkerRef)
    /\ UNCHANGED <<envToken, buildingVars, mapboxAccessToken, phase, mapRef,
                   didCancelRef, styleLoaded, routeSource, routeLayer, routeCalls, calls, loads>>

\* Mutant: the second click routes from the clicked point back to point A.
handleMapClickEndReversed(clicked) ==
    /\ mapRef # NoMap
    /\ ~(routePointsRef.start = None \/ routePointsRef.end # None)
    /\ Len(loads) < MaxLoads
    /\ routePointsRef' = [start |-> routePointsRef.start, end |-> Some(clicked)]
    /\ endMarkerRef' = placeMarker(endMarkerRef, clicked, "B")
    /\ loadRoute(clicked, routePointsRef.start[1])
    /\ UNCHANGED <<envToken, buildingVars, mapboxAccessToken, phase, mapRef,
                   didCancelRef, styleLoaded, startMarkerRef>>

\* 'click' fires on the current map with point A and no point B: set point B
\* and route.
handleMapClickEnd(clicked) ==
    /\ mapRef # NoMap
    /\ ~(routePointsRef.start = None \/ routePointsRef.end # None)
    /\ Len(loads) < MaxLoads
    /\ routePointsRef' = [start |-> routePointsRef.start, end |-> Some(clicked)]
    /\ endMarkerRef' = placeMarker(endMarkerRef, clicked, "B")
    /\ loadRoute(routePointsRef.start[1], clicked)
    /\ UNCHANGED <<envToken, buildingVars, mapboxAccessToken, phase, mapRef,
                   didCancelRef, styleLoaded, startMarkerRef>>

\* The handle's addRandomBuilding(): with a map, count the building, register
\* it with its random colour and add its source and its layer to the map.
addRandomBuilding(color) ==
    IF mapRef = NoMap
    THEN UNCHANGED vars
    ELSE LET id == BuildingId("dynamic-", buildingCountRef + 1)
         IN  /\ buildingCountRef < Len(INITIAL_BUILDINGS) + MaxBuildings
             /\ buildingCountRef' = buildingCountRef + 1
             /\ buildingRegistryRef' = Append(buildingRegistryRef,
                                              [id |-> id, color |-> color])
             /\ mapBuildings' = mapBuildings \cup {id}
             /\ UNCHANGED <<envToken, mapboxAccessToken, phase, mapRef,
                            didCancelRef, styleLoaded, routeSource, routeLayer,
                            routeCalls, routePointsRef, startMarkerRef,
                            endMarkerRef, calls, loads>>

\* Mutant: setRoute does not look for the map.
setRouteWithoutMapCheck(from, to) ==
    /\ Len(loads) < MaxLoads
    /\ routePointsRef' = [start |-> Some(from), end |-> Some(to)]
    /\ startMarkerRef' = placeMarker(startMarkerRef, from, "A")
    /\ endMarkerRef' = placeMarker(endMarkerRef, to, "B")
    /\ loadRoute(from, to)
    /\ UNCHANGED <<envToken, buildingVars, mapboxAccessToken, phase, mapRef,
                   didCancelRef, styleLoaded>>

\* The handle's setRoute(from, to).
setRoute(from, to) ==
    IF mapRef = NoMap
    THEN UNCHANGED vars
    ELSE /\ Len(loads) < MaxLoads
         /\ routePointsRef' = [start |-> Some(from), end |-> Some(to)]
         /\ startMarkerRef' = placeMarker(startMarkerRef, from, "A")
         /\ endMarkerRef' = placeMarker(endMarkerRef, to, "B")
         /\ loadRoute(from, to)
         /\ UNCHANGED <<envToken, buildingVars, mapboxAccessToken, phase, mapRef,
                        didCancelRef, styleLoaded>>

\* The handle's resetRoute().
resetRoute ==
    IF mapRef = NoMap
    THEN UNCHANGED vars
    ELSE /\ routePointsRef' = [start |-> None, end |-> None]
         /\ startMarkerRef' = clearMarker(startMarkerRef)
         /\ endMarkerRef' = clearMarker(endMarkerRef)
         /\ upsertRoute(DEFAULT_ROUTE)
         /\ loads' = LoadsAfterReset
         /\ UNCHANGED <<envToken, buildingVars, mapboxAccessToken, phase, mapRef,
                        didCancelRef, styleLoaded, calls>>

\* fetch() settles for the fetch of loadRoute invocation i; when that ends the
\* fetch, loadRoute resumes in the same turn of the event loop.
LoadFetchSettles(i, response) ==
    LET c == loads[i].call
        call == FetchOnResponse(calls[c], response)
    IN  /\ calls[c].pc = "awaitFetch"
        /\ calls' = [calls EXCEPT ![c] = call]
        /\ IF call.pc = "done"
           THEN loadRouteResume(loads, i, call.outcome[1])
           ELSE UNCHANGED <<loads, routeSource, routeLayer, routeCalls>>
        /\ UNCHANGED <<envToken, buildingVars, mapboxAccessToken, phase, mapRef,
                       didCancelRef, styleLoaded, routePointsRef, startMarkerRef,
                       endMarkerRef>>

\* Mutant: the fetch stores the endpoints it routed as the selected points.
LoadBodySettlesStoresEndpoints(i, body) ==
    LET c == loads[i].call
        call == FetchOnBody(calls[c], body)
    IN  /\ calls[c].pc = "awaitJson"
        /\ calls' = [calls EXCEPT ![c] = call]
        /\ loadRouteResume(loads, i, call.outcome[1])
        /\ routePointsRef' = [start |-> Some(call.from), end |-> Some(call.to)]
        /\ UNCHANGED <<envToken, buildingVars, mapboxAccessToken, phase, mapRef,
                       didCancelRef, styleLoaded, startMarkerRef, endMarkerRef>>

\* response.json() settles for the fetch of loadRoute invocation i, and
\* loadRoute resumes.
LoadBodySettles(i, body) ==
    LET c == loads[i].call
        call == FetchOnBody(calls[c], body)
    IN  /\ calls[c].pc = "awaitJson"
        /\ calls' = [calls EXCEPT ![c] = call]
        /\ loadRouteResume(loads, i, call.outcome[1])
        /\ UNCHANGED <<envToken, buildingVars, mapboxAccessToken, phase, mapRef,
                       didCancelRef, styleLoaded, routePointsRef, startMarkerRef,
                       endMarkerRef>>

\* The points of a click that starts a selection, of a click that completes
\* one, and the endpoints a caller of setRoute passes.
ClickPoints == {PointA}

EndClickPoints == {PointB}

SetRouteArguments == {<<PointB, PointA>>}

Next ==
    \/ EffectMount
    \/ EffectRerun
    \/ Unmount
    \/ handleStyleLoad
    \/ \E clicked \in ClickPoints : handleMapClickStart(clicked)
    \/ \E clicked \in EndClickPoints : handleMapClickEnd(clicked)
    \/ \E a \in SetRouteArguments : setRoute(a[1], a[2])
    \/ resetRoute
    \/ \E i \in DOMAIN loads, response \in DirectionsResponses :
           LoadFetchSettles(i, response)
    \/ \E i \in DOMAIN loads, body \in LoadBodies : LoadBodySettles(i, body)

Spec == Init /\ [][Next]_vars

\* ------------------------------------------ the component through its handle

\* The component driven through its imperative handle: the effect, style.load,
\* the three methods of the handle and the settling of the fetches.
NextHandle ==
    \/ EffectMount
    \/ EffectRerun
    \/ Unmount
    \/ handleStyleLoad
    \/ \E color \in RandomColors : addRandomBuilding(color)
    \/ \E a \in SetRouteArguments : setRoute(a[1], a[2])
    \/ resetRoute
    \/ \E i \in DOMAIN loads, response \in DirectionsResponses :
           LoadFetchSettles(i, response)
    \/ \E i \in DOMAIN loads, body \in LoadBodies : LoadBodySettles(i, body)

SpecHandle == Init /\ [][NextHandle]_vars

\* ------------------------------------ the component on a map call that throws

\* loadRoute after its await when the fetch returned a RouteResult and
\* upsertRoute(featureCollection), inside the try block, throws before it
\* changes the map: the catch block logs, checks the flag and calls
\* upsertRoute(DEFAULT_ROUTE), which throws in its turn or not. When it throws
\* the promise of loadRoute rejects.
loadRouteResumeUpsertThrows(i, fallbackThrows) ==
    IF Discarded(i)
    THEN /\ loads' = [loads EXCEPT ![i].settled = "fulfilled",
                                   ![i].resetSince = FALSE]
         /\ UNCHANGED <<routeSource, routeLayer, routeCalls>>
    ELSE IF fallbackThrows
    THEN /\ loads' = [loads EXCEPT ![i].settled = "rejected",
                                   ![i].resetSince = FALSE]
         /\ UNCHANGED <<routeSource, routeLayer, routeCalls>>
    ELSE /\ loads' = [loads EXCEPT ![i].settled = "fulfilled",
                                   ![i].resetSince = FALSE,
                                   ![i].writes = @ + 1]
         /\ upsertRoute(DEFAULT_ROUTE)

\* response.json() settles with a route for the fetch of loadRoute invocation
\* i, loadRoute resumes on the current map with the flag unset, and the map
\* throws at upsertRoute(featureCollection).
LoadBodySettlesUpsertThrows(i, body, fallbackThrows) ==
    LET c == loads[i].call
        call == FetchOnBody(calls[c], body)
    IN  /\ calls[c].pc = "awaitJson"
        /\ call.outcome[1].ok
        /\ mapRef # NoMap
        /\ ~Discarded(i)
        /\ calls' = [calls EXCEPT ![c] = call]
        /\ loadRouteResumeUpsertThrows(i, fallbackThrows)
        /\ UNCHANGED <<envToken, buildingVars, mapboxAccessToken, phase, mapRef,
                       didCancelRef, styleLoaded, routePointsRef, startMarkerRef,
                       endMarkerRef>>

NextMapThrows ==
    \/ EffectMount
    \/ EffectRerun
    \/ Unmount
    \/ handleStyleLoad
    \/ \E clicked \in ClickPoints : handleMapClickStart(clicked)
    \/ \E clicked \in EndClickPoints : handleMapClickEnd(clicked)
    \/ \E a \in SetRouteArguments : setRoute(a[1], a[2])
    \/ resetRoute
    \/ \E i \in DOMAIN loads, response \in DirectionsResponses :
           LoadFetchSettles(i, response)
    \/ \E i \in DOMAIN loads, body \in LoadBodies : LoadBodySettles(i, body)
    \/ \E i \in DOMAIN loads, body \in LoadBodies, fallbackThrows \in BOOLEAN :
           LoadBodySettlesUpsertThrows(i, body, fallbackThrows)

\* The component on a map whose calls may throw.
SpecMapThrows == Init /\ [][NextMapThrows]_vars

\* ------------------------------------------------------------------ claims

\* Invocation i of loadRoute resumes after its fetch in this step.
SettlesInStep(i) ==
    /\ i \in DOMAIN loads'
    /\ loads'[i].settled # "pending"
    /\ (i \in DOMAIN loads => loads[i].settled = "pending")

\* The outcome of the fetch of invocation i, after the step that ends it.
OutcomeAfter(i) == calls'[loads'[i].call].outcome[1]

\* The outcome of the fetch of a settled invocation i.
OutcomeOf(i) == calls[loads[i].call].outcome[1]

\* Invocation i was issued on the map that is still the live one.
OnLiveMap(i) == mapRef # NoMap /\ ~loads[i].mapRemoved

\* C1 (as claimed): of two requests R1, R2 issued on the same mounted map, R1
\* before R2, a completion of R1 that arrives after R2 has completed never
\* changes the displayed route; and when R2 is the latest request and both have
\* completed, in either order, the displayed route is R2's outcome.
C1_ResultsAppliedInIssuanceOrder ==
    [][\A r1, r2 \in DOMAIN loads :
          (r1 < r2 /\ OnLiveMap(r1) /\ OnLiveMap(r2))
          => /\ (loads[r2].settled # "pending" /\ SettlesInStep(r1))
                => routeSource' = routeSource
             /\ ( /\ r2 = Len(loads')
                  /\ SettlesInStep(r1) \/ SettlesInStep(r2)
                  /\ loads'[r1].settled # "pending"
                  /\ loads'[r2].settled # "pending" )
                => routeSource' = Some(RouteToShow(OutcomeAfter(r2)))]_vars

\* C2: R1 is issued, then immediately R2, on the mounted map, and R2 resolves
\* before R1: at the step at which R1 resolves, the displayed route becomes
\* R1's outcome, whatever R2's outcome was.
C2_LaterCompletionOfR1Wins ==
    [][\A r1, r2 \in DOMAIN loads :
          ( /\ r2 = r1 + 1
            /\ OnLiveMap(r1) /\ OnLiveMap(r2)
            /\ loads[r2].settled # "pending"
            /\ SettlesInStep(r1) )
          => /\ routeSource' = Some(RouteToShow(OutcomeAfter(r1)))
             /\ RouteToShow(OutcomeAfter(r1)) # RouteToShow(OutcomeOf(r2))
                => routeSource' # Some(RouteToShow(OutcomeOf(r2)))]_vars

\* C2 witness: both requests have resolved on the live map, their outcomes
\* differ, and the route displayed is the fetched route of R1.
C2_Witness ==
    \E r1, r2 \in DOMAIN loads :
        /\ r2 = r1 + 1
        /\ OnLiveMap(r1) /\ OnLiveMap(r2)
        /\ loads[r1].settled # "pending" /\ loads[r2].settled # "pending"
        /\ OutcomeOf(r1).ok
        /\ RouteToShow(OutcomeOf(r1)) # RouteToShow(OutcomeOf(r2))
        /\ routeSource = Some(RouteToShow(OutcomeOf(r1)))

\* C3: when the fetch of the current request fails while its map is mounted,
\* loadRoute displays DEFAULT_ROUTE, the line CARRINGTON_CENTER,
\* [151.21, -33.8615], OPERA_CENTER, and its promise does not reject.
C3_FailureShowsDefaultRoute ==
    [][\A i \in DOMAIN loads' :
          ( /\ SettlesInStep(i)
            /\ i = Len(loads')
            /\ mapRef # NoMap /\ ~didCancelRef /\ ~loads'[i].mapRemoved
            /\ ~OutcomeAfter(i).ok )
          => /\ routeSource' # None
             /\ LineOf(routeSource'[1]) =
                    << <<15120670, -3386545>>, <<15121000, -3386150>>,
                       <<15121530, -3385680>> >>
             /\ routeSource'[1] = DEFAULT_ROUTE
             /\ routeLayer'
             /\ loads'[i].settled = "fulfilled"]_vars

\* C3 witness: the current request failed on a body that is not JSON, on the
\* live map, and the fallback line is displayed.
C3_Witness ==
    \E i \in DOMAIN loads :
        /\ i = Len(loads)
        /\ OnLiveMap(i)
        /\ loads[i].settled = "fulfilled"
        /\ ~OutcomeOf(i).ok
        /\ OutcomeOf(i).error[1].name = "SyntaxError"
        /\ loads[i].writes = 1
        /\ routeSource = Some(DEFAULT_ROUTE)

\* A request is superseded or cancelled when it resumes: a later request has
\* been issued, or its map has been removed, or the cancellation flag is set.
StaleInStep(i) == i < Len(loads') \/ loads'[i].mapRemoved \/ didCancelRef

\* C4 (as claimed): a request writes the displayed route exactly once, at the
\* step at which it resolves as the current request, and never when it was
\* superseded or cancelled before it resolved.
C4_OneWritePerCurrentRequest ==
    [][\A i \in DOMAIN loads' :
          /\ SettlesInStep(i)
             => loads'[i].writes = (IF StaleInStep(i) THEN 0 ELSE 1)
          /\ ~SettlesInStep(i)
             => loads'[i].writes = (IF i \in DOMAIN loads THEN loads[i].writes ELSE 0)]_vars

\* C5: when the fetch of the most recent request succeeds while its map is
\* mounted, the displayed route becomes the fetched feature collection of that
\* request.
C5_SuccessShowsFetchedRoute ==
    [][\A i \in DOMAIN loads' :
          ( /\ SettlesInStep(i)
            /\ i = Len(loads')
            /\ mapRef # NoMap /\ ~didCancelRef /\ ~loads'[i].mapRemoved
            /\ OutcomeAfter(i).ok )
          => /\ routeSource' = Some(OutcomeAfter(i).value[1].featureCollection)
             /\ LineOf(routeSource'[1]) =
                    FirstRoute(calls'[loads'[i].call].body[1])[1].coordinates[1]
             /\ routeLayer']_vars

\* C5 witness: the most recent request succeeded on the live map, after a
\* route was already displayed, and its three-point route is displayed.
C5_Witness ==
    \E i \in DOMAIN loads :
        /\ i = Len(loads) /\ i > 1
        /\ OnLiveMap(i)
        /\ loads[i].settled = "fulfilled"
        /\ loads[i - 1].settled = "fulfilled" /\ OnLiveMap(i - 1)
        /\ OutcomeOf(i).ok
        /\ routeSource = Some(OutcomeOf(i).value[1].featureCollection)
        /\ LineOf(routeSource[1]) = <<CARRINGTON_CENTER, PointA, OPERA_CENTER>>

\* C6 (as claimed): whenever a route is displayed it is a line of at least two
\* coordinates: DEFAULT_ROUTE, or the whole geometry returned for some request.
C6_DisplayedRouteIsALine ==
    routeSource # None
    => /\ Len(LineOf(routeSource[1])) >= 2
       /\ \/ routeSource[1] = DEFAULT_ROUTE
          \/ \E c \in DOMAIN calls :
                 /\ calls[c].outcome # None
                 /\ calls[c].outcome[1].ok
                 /\ routeSource[1] = calls[c].outcome[1].value[1].featureCollection

\* No access token is available to an invocation: options.accessToken is
\* absent and VITE_MAPBOX_TOKEN is not configured or empty, or
\* options.accessToken is the empty string.
NoTokenAvailable(call) ==
    \/ call.options.accessToken = None /\ envToken \in {None, Some("")}
    \/ call.options.accessToken = Some("")

\* C7: an invocation of fetchRouteFeatureCollection with no access token
\* available has failed with the missing-token error and has issued no HTTP
\* request.
C7_MissingTokenFailsBeforeAnyRequest ==
    \A i \in DOMAIN calls :
        NoTokenAvailable(calls[i])
        => /\ calls[i].pc = "done"
           /\ calls[i].outcome = Some(Thrown(MissingTokenError))
           /\ Len(calls[i].httpRequests) = 0
           /\ calls[i].response = None

\* C7 witness: an invocation without options.accessToken, in a build without
\* VITE_MAPBOX_TOKEN, has failed, and so has one with an empty token.
C7_Witness ==
    /\ envToken = None
    /\ \E i, j \in DOMAIN calls :
           /\ calls[i].options.accessToken = None
           /\ calls[j].options.accessToken = Some("")
           /\ calls[i].outcome # None /\ ~calls[i].outcome[1].ok
           /\ calls[j].outcome # None /\ ~calls[j].outcome[1].ok

\* The response of an invocation has a status outside 200-299.
NonSuccessStatus(call) ==
    /\ call.response # None
    /\ call.response[1].status < 200 \/ call.response[1].status > 299

\* C8: an invocation whose HTTP response has a non-success status has failed
\* with an error whose message carries the status code and the status text; it
\* has returned no RouteResult and has not read the body.
C8_NonSuccessStatusFails ==
    \A i \in DOMAIN calls :
        NonSuccessStatus(calls[i])
        => /\ calls[i].pc = "done"
           /\ calls[i].outcome # None
           /\ ~calls[i].outcome[1].ok
           /\ calls[i].outcome[1].value = None
           /\ calls[i].outcome[1].error[1].message =
                  <<"Mapbox directions request failed (">>
                  \o Decimal(calls[i].response[1].status)
                  \o <<"): ", calls[i].response[1].statusText>>
           /\ calls[i].bodyReads = 0
           /\ calls[i].body = None

\* C8 witness: an invocation answered 404 Not Found has failed with the
\* message "Mapbox directions request failed (404): Not Found".
C8_Witness ==
    \E i \in DOMAIN calls :
        /\ calls[i].response = Some(HttpResponse(404, "Not Found"))
        /\ calls[i].outcome # None
        /\ calls[i].outcome[1].error =
               Some(JsError("Error", <<"Mapbox directions request failed (",
                                       "4", "0", "4", "): ", "Not Found">>))

\* The parsed body of an invocation has no routes array, or an empty one.
NoRoutesInBody(call) ==
    /\ call.pc = "done"
    /\ call.body # None
    /\ call.body[1].routes = None \/ call.body[1].routes = Some(<< >>)

\* C9: an invocation whose success response has a JSON body with a missing or
\* empty routes array has failed with an error whose message is the message of
\* the body when it has one and the fixed generic message otherwise.
C9_NoRoutesFails ==
    \A i \in DOMAIN calls :
        NoRoutesInBody(calls[i])
        => /\ calls[i].outcome # None
           /\ ~calls[i].outcome[1].ok
           /\ calls[i].outcome[1].value = None
           /\ calls[i].outcome[1].error[1].message =
                  (IF calls[i].body[1].message # None
                   THEN calls[i].body[1].message
                   ELSE <<"Mapbox did not return a route geometry for the request.">>)

\* C9 witness: one invocation got an empty routes array with a server message
\* and failed with that message, another got no routes array and no message
\* and failed with the generic message.
C9_Witness ==
    \E i, j \in DOMAIN calls :
        /\ NoRoutesInBody(calls[i]) /\ NoRoutesInBody(calls[j])
        /\ calls[i].body[1].routes = Some(<< >>)
        /\ calls[i].outcome[1].error[1].message = <<"No segment found">>
        /\ calls[j].body[1].routes = None
        /\ calls[j].body[1].message = None
        /\ calls[j].outcome[1].error[1].message = NoGeometryMessage

\* The number of coordinates of the first route of a parsed body; 0 when the
\* route has no geometry.
FirstRoutePoints(body) ==
    IF FirstRoute(body) = None \/ FirstRoute(body)[1].coordinates = None
    THEN 0
    ELSE Len(FirstRoute(body)[1].coordinates[1])

\* C10 (as claimed): an invocation whose first route has fewer than two
\* coordinates has failed, and every RouteResult returned has a line of at
\* least two points.
C10_ShortGeometryFails ==
    \A i \in DOMAIN calls :
        /\ ( /\ calls[i].pc = "done"
             /\ calls[i].body # None
             /\ FirstRoute(calls[i].body[1]) # None
             /\ FirstRoutePoints(calls[i].body[1]) < 2 )
           => ~calls[i].outcome[1].ok
        /\ (calls[i].outcome # None /\ calls[i].outcome[1].ok)
           => Len(LineOf(calls[i].outcome[1].value[1].featureCollection)) >= 2

\* The parsed body of a finished invocation has a first route with a geometry
\* of at least two coordinates.
FirstRouteIsALine(call) ==
    /\ call.pc = "done"
    /\ call.body # None
    /\ call.body[1].routes # None
    /\ Len(call.body[1].routes[1]) >= 1
    /\ call.body[1].routes[1][1].coordinates # None
    /\ Len(call.body[1].routes[1][1].coordinates[1]) >= 2

\* C11: an invocation with a token whose success response has a first route of
\* at least two coordinates returns a RouteResult: one LineString feature whose
\* coordinates are those of the first route, whose properties are its distance
\* and duration, with the same distance and duration at the top level; the
\* routes after the first are ignored.
C11_SuccessReturnsFirstRouteAsLine ==
    \A i \in DOMAIN calls :
        FirstRouteIsALine(calls[i])
        => LET first == calls[i].body[1].routes[1][1]
               outcome == calls[i].outcome[1]
           IN  /\ outcome.ok
               /\ outcome.error = None
               /\ outcome.value[1].featureCollection.type = "FeatureCollection"
               /\ Len(outcome.value[1].featureCollection.features) = 1
               /\ outcome.value[1].featureCollection.features[1].type = "Feature"
               /\ outcome.value[1].featureCollection.features[1].geometry.type
                      = "LineString"
               /\ outcome.value[1].featureCollection.features[1].geometry.coordinates
                      = first.coordinates[1]
               /\ outcome.value[1].featureCollection.features[1].properties
                      = {<<"distance", first.distance>>, <<"duration", first.duration>>}
               /\ outcome.value[1].distance = first.distance
               /\ outcome.value[1].duration = first.duration

\* C11 witness: an invocation with the cycling profile got a body with two
\* routes and returned the three-point line of the first, 1480 m and 1070 s.
C11_Witness ==
    \E i \in DOMAIN calls :
        /\ calls[i].options.profile = Some("cycling")
        /\ calls[i].body = Some(ThreePointBody)
        /\ Len(calls[i].body[1].routes[1]) = 2
        /\ calls[i].outcome # None
        /\ calls[i].outcome[1].ok
        /\ LineOf(calls[i].outcome[1].value[1].featureCollection)
               = <<CARRINGTON_CENTER, PointA, OPERA_CENTER>>
        /\ calls[i].outcome[1].value[1].distance = 1480
        /\ calls[i].outcome[1].value[1].duration = 1070

\* Which of the four failure conditions a failed invocation met, told from
\* what happened to it: it issued no request (no token), fetch() rejected or
\* answered a non-success status, the body was not JSON, or the body had no
\* route geometry.
FailureCondition(call) ==
    IF Len(call.httpRequests) = 0 THEN "missing token"
    ELSE IF call.bodyReads = 0 THEN "transport"
    ELSE IF call.body = None THEN "malformed JSON"
    ELSE "no route geometry"

\* The kind of a failure value: the class of the error thrown.
FailureKind(call) == call.outcome[1].error[1].name

\* An invocation has failed.
HasFailed(call) == call.pc = "done" /\ call.outcome # None /\ ~call.outcome[1].ok

\* C12 (as claimed): the kind of the failure value tells which of the four
\* conditions occurred: failures of different conditions have different kinds,
\* and failures of the same condition, a network failure and a non-success
\* status among them, have the same kind.
C12_FailureKindTellsTheCondition ==
    \A i, j \in DOMAIN calls :
        (HasFailed(calls[i]) /\ HasFailed(calls[j]))
        => ( FailureCondition(calls[i]) = FailureCondition(calls[j])
             <=> FailureKind(calls[i]) = FailureKind(calls[j]) )

\* C13: every failure is terminal for its request. Each invocation of
\* loadRoute has one invocation of fetchRouteFeatureCollection of its own,
\* which issues at most one HTTP request and reads at most one body; once the
\* fetch has ended, in failure or success, nothing of it changes and no request
\* is issued for it again, and a settled loadRoute stays settled.
C13_FailureIsTerminal ==
    [][ /\ Len(calls') = Len(loads')
        /\ \A i \in DOMAIN loads' :
               /\ loads'[i].call = i
               /\ Len(calls'[i].httpRequests) <= 1
               /\ calls'[i].bodyReads <= 1
        /\ \A i \in DOMAIN calls :
               calls[i].pc = "done" => calls'[i] = calls[i]
        /\ \A i \in DOMAIN loads :
               loads[i].settled # "pending"
               => /\ loads'[i].settled = loads[i].settled
                  /\ loads'[i].writes = loads[i].writes ]_vars

\* C13 witness: the only request failed on a 404 after one HTTP request, the
\* fallback is displayed, and the user has since clicked a point A: no second
\* invocation and no second HTTP request were made.
C13_Witness ==
    /\ Len(loads) = 1 /\ Len(calls) = 1
    /\ loads[1].settled = "fulfilled"
    /\ ~OutcomeOf(1).ok
    /\ calls[1].response = Some(HttpResponse(404, "Not Found"))
    /\ Len(calls[1].httpRequests) = 1
    /\ routeSource = Some(DEFAULT_ROUTE)
    /\ routePointsRef = [start |-> Some(PointA), end |-> None]

\* C14: a pending request changes nothing in the displayed route. A step
\* changes the displayed route only when a fetch ends and its loadRoute
\* resumes, when resetRoute runs, or when the map is removed; a request that
\* stays pending through a step is still in flight after it, with the HTTP
\* request it issued, and has written nothing: no timeout applies the fallback
\* and nothing aborts the call.
C14_PendingRequestChangesNothing ==
    [][ /\ routeSource' # routeSource
           => \/ \E i \in DOMAIN loads' : SettlesInStep(i)
              \/ /\ routeSource' = Some(DEFAULT_ROUTE)
                 /\ routePointsRef' = [start |-> None, end |-> None]
                 /\ calls' = calls
              \/ /\ routeSource' = None
                 /\ mapRef = TheMap
                 /\ calls' = calls
        /\ \A i \in DOMAIN loads :
               (loads[i].settled = "pending" /\ ~SettlesInStep(i))
               => /\ loads'[i].settled = "pending"
                  /\ loads'[i].writes = 0
                  /\ calls'[loads'[i].call].pc # "done"
                  /\ calls'[loads'[i].call].httpRequests
                         = calls[loads[i].call].httpRequests ]_vars

\* C14 witness: the first request showed its fetched route; a second request
\* is pending on the same map, and the first route is still displayed.
C14_Witness ==
    /\ Len(loads) = 2
    /\ OnLiveMap(1) /\ OnLiveMap(2)
    /\ loads[1].settled = "fulfilled"
    /\ OutcomeOf(1).ok
    /\ loads[2].settled = "pending"
    /\ calls[2].pc = "awaitFetch"
    /\ routeSource = Some(OutcomeOf(1).value[1].featureCollection)

\* What the transport answered to a finished invocation: the settling of
\* fetch() and, when the body was read, the settling of response.json().
TransportAnswer(call) ==
    [requests |-> Len(call.httpRequests), response |-> call.response,
     bodyReads |-> call.bodyReads, body |-> call.body]

\* Two invocations have identical (from, to, profile, token).
SameInputs(c1, c2) ==
    /\ c1.from = c2.from
    /\ c1.to = c2.to
    /\ ProfileOf(c1.options) = ProfileOf(c2.options)
    /\ AccessTokenOf(c1.options) = AccessTokenOf(c2.options)

FetchRunsInStep(c) == calls[c].pc # "done" /\ calls'[c] # calls[c]

\* C16: fetchRouteFeatureCollection leaves the shared state as it is. A step
\* in which a fetch runs changes neither the selected route points, nor the
\* markers, nor the cancellation flag, nor the map; while the fetch goes on to
\* read the body the displayed route is unchanged too, and when the fetch ends,
\* in success or failure, the displayed route changes only by the upsertRoute
\* of the loadRoute that resumes.
C16_FetchLeavesSharedStateUnchanged ==
    [][\A c \in DOMAIN calls :
          FetchRunsInStep(c)
          => /\ UNCHANGED <<routePointsRef, startMarkerRef, endMarkerRef,
                            didCancelRef, mapRef, styleLoaded>>
             /\ calls'[c].pc # "done"
                => UNCHANGED <<routeSource, routeLayer, loads>>
             /\ calls'[c].pc = "done"
                => \/ UNCHANGED <<routeSource, routeLayer>>
                   \/ /\ ~didCancelRef
                      /\ mapRef # NoMap
                      /\ routeSource' = Some(RouteToShow(calls'[c].outcome[1]))
                      /\ routeLayer']_vars

\* C16 witness: with points A and B selected and both markers placed by two
\* clicks, the fetch of that selection has ended in a failure and the fetch of
\* the first request in a success; the selection and the markers are as the
\* clicks left them.
C16_Witness ==
    /\ Len(calls) = 2
    /\ calls[1].pc = "done" /\ calls[1].outcome[1].ok
    /\ calls[2].pc = "done" /\ ~calls[2].outcome[1].ok
    /\ calls[2].from = PointA
    /\ routePointsRef = [start |-> Some(calls[2].from), end |-> Some(calls[2].to)]
    /\ startMarkerRef = Some(Marker(calls[2].from, "A"))
    /\ endMarkerRef = Some(Marker(calls[2].to, "B"))
    /\ ~didCancelRef

\* A click starts a selection in this step: the route points become a point A
\* alone. No other handler leaves a point A without a point B.
ClickStartsSelection ==
    /\ routePointsRef' # routePointsRef
    /\ routePointsRef'.start # None
    /\ routePointsRef'.end = None

\* A click completes a selection in this step: point A stays and a point B is
\* set.
ClickCompletesSelection ==
    /\ routePointsRef.start # None
    /\ routePointsRef.end = None
    /\ routePointsRef'.start = routePointsRef.start
    /\ routePointsRef'.end # None

\* A request is issued in this step.
IssuesRequest == Len(loads') > Len(loads) \/ Len(calls') > Len(calls)

\* C17: the two-click selection. From an empty selection a click sets point A
\* to the clicked coordinate and places the A marker there, with no point B and
\* no B marker, and issues no request; the next click sets point B, places the
\* B marker and issues exactly one request, from A to B. A click issues a
\* request exactly when point A is set and point B is not before it.
C17_TwoClickSelection ==
    [][ /\ (routePointsRef = [start |-> None, end |-> None] /\ ClickStartsSelection)
           => /\ startMarkerRef' = Some(Marker(routePointsRef'.start[1], "A"))
              /\ endMarkerRef' = None
              /\ ~IssuesRequest
              /\ UNCHANGED <<calls, loads, routeSource, routeLayer>>
        /\ ClickCompletesSelection
           => /\ endMarkerRef' = Some(Marker(routePointsRef'.end[1], "B"))
              /\ startMarkerRef' = startMarkerRef
              /\ Len(loads') = Len(loads) + 1
              /\ Len(calls') = Len(calls) + 1
              /\ loads'[Len(loads')].call = Len(calls')
              /\ calls'[Len(calls')].from = routePointsRef.start[1]
              /\ calls'[Len(calls')].to = routePointsRef'.end[1]
              /\ Len(calls'[Len(calls')].httpRequests) = 1
              /\ calls'[Len(calls')].httpRequests[1].from = routePointsRef.start[1]
              /\ calls'[Len(calls')].httpRequests[1].to = routePointsRef'.end[1]
        /\ ClickStartsSelection => ~IssuesRequest ]_vars

\* C17 witness: two clicks on the mounted map, at PointA then at PointB, made
\* the only request, from PointA to PointB, with both markers placed.
C17_Witness ==
    /\ routePointsRef = [start |-> Some(PointA), end |-> Some(PointB)]
    /\ startMarkerRef = Some(Marker(PointA, "A"))
    /\ endMarkerRef = Some(Marker(PointB, "B"))
    /\ Len(loads) = 1 /\ Len(calls) = 1
    /\ calls[1].from = PointA /\ calls[1].to = PointB
    /\ calls[1].pc = "awaitFetch"

\* C18: restart. A click with both points set, after a two-click selection or
\* after setRoute, sets point A to the clicked coordinate with its marker,
\* unsets point B and removes the B marker; it issues no request and leaves the
\* displayed route as it is.
C18_ClickRestartsSelection ==
    [][ ( /\ routePointsRef.start # None
          /\ routePointsRef.end # None
          /\ ClickStartsSelection )
        => /\ startMarkerRef' = Some(Marker(routePointsRef'.start[1], "A"))
           /\ endMarkerRef' = None
           /\ ~IssuesRequest
           /\ UNCHANGED <<calls, loads, routeSource, routeLayer>> ]_vars

\* C18 witness: setRoute(PointB, PointA) showed its fetched route; a click at
\* PointA then restarted the selection: A is PointA, there is no B nor B
\* marker, no further request, and the fetched route is still displayed.
C18_Witness ==
    /\ Len(loads) = 1
    /\ calls[1].from = PointB /\ calls[1].to = PointA
    /\ loads[1].settled = "fulfilled"
    /\ OutcomeOf(1).ok
    /\ routeSource = Some(OutcomeOf(1).value[1].featureCollection)
    /\ routePointsRef = [start |-> Some(PointA), end |-> None]
    /\ startMarkerRef = Some(Marker(PointA, "A"))
    /\ endMarkerRef = None

\* C19: upsertRoute sets or creates. On the current map the route source and
\* the route line layer are each added at most once, whatever the number of
\* upsertRoute calls; once upsertRoute has run there is one source and one
\* layer, and the data of the source are the argument of its latest call; with
\* no map there is no source, no layer and nothing was called.
C19_UpsertRouteSetsOrCreates ==
    /\ routeCalls.addSource <= 1
    /\ routeCalls.addLayer <= 1
    /\ routeCalls.latest # None
       => /\ mapRef # NoMap
          /\ routeSource = routeCalls.latest
          /\ routeLayer
          /\ routeCalls.addSource = 1
          /\ routeCalls.addLayer = 1
    /\ routeCalls.latest = None
       => /\ routeSource = None
          /\ ~routeLayer
          /\ routeCalls = NoRouteCalls
    /\ mapRef = NoMap
       => /\ routeSource = None
          /\ ~routeLayer
          /\ routeCalls = NoRouteCalls

\* C19 witness: on one map upsertRoute has run for the fallback of the failed
\* second request and then for the fetched route of the first; the source and
\* the layer were added once and the source holds the data of the latest call.
C19_Witness ==
    /\ Len(loads) = 2
    /\ OnLiveMap(1) /\ OnLiveMap(2)
    /\ loads[1].writes = 1 /\ loads[2].writes = 1
    /\ OutcomeOf(1).ok /\ ~OutcomeOf(2).ok
    /\ routeCalls.addSource = 1
    /\ routeCalls.addLayer = 1
    /\ routeSource = routeCalls.latest
    /\ routeSource = Some(OutcomeOf(1).value[1].featureCollection)

\* C20 (as claimed): a request issued on a map that the cleanup of the effect
\* has since removed never updates a displayed route: when it resolves its
\* completion is discarded, also when the effect has run again and created a
\* new map in between.
C20_RequestOfRemovedMapIsDiscarded ==
    [][\A i \in DOMAIN loads :
          (loads[i].mapRemoved /\ SettlesInStep(i))
          => /\ UNCHANGED <<routeSource, routeLayer, routeCalls>>
             /\ loads'[i].writes = 0]_vars

\* C21 (as claimed): resetRoute on a mounted map clears both route points,
\* removes both markers and displays DEFAULT_ROUTE; and when a request that was
\* in flight at that resetRoute resolves, no request having been issued since,
\* the displayed route stays DEFAULT_ROUTE.
C21_ResetRouteIsNotReplaced ==
    [][\A i \in DOMAIN loads :
          /\ (~loads[i].resetSince /\ loads'[i].resetSince)
             => /\ routePointsRef' = [start |-> None, end |-> None]
                /\ startMarkerRef' = None
                /\ endMarkerRef' = None
                /\ routeSource' = Some(DEFAULT_ROUTE)
          /\ (loads[i].resetSince /\ SettlesInStep(i))
             => routeSource' = Some(DEFAULT_ROUTE)]_vars

\* A marker reference holds a marker attached to the current map.
MarkerShown(markerRef) == markerRef # None /\ markerRef[1].onMap

\* C22 (as claimed): while a map exists, point A is set exactly when an A
\* marker is attached to the current map, at point A, and point B likewise;
\* point B is set only when point A is. So the origin of a request issued by a
\* click is a point whose A marker is shown on the current map.
C22_SelectionMatchesMarkers ==
    mapRef # NoMap
    => /\ routePointsRef.start # None <=> MarkerShown(startMarkerRef)
       /\ routePointsRef.end # None <=> MarkerShown(endMarkerRef)
       /\ MarkerShown(startMarkerRef)
          => startMarkerRef[1] = Marker(routePointsRef.start[1], "A")
       /\ MarkerShown(endMarkerRef)
          => endMarkerRef[1] = Marker(routePointsRef.end[1], "B")
       /\ routePointsRef.end # None => routePointsRef.start # None

\* C23 (as claimed): loadRoute displays DEFAULT_ROUTE for a request only if
\* its fetch failed. At the step at which a request whose fetch returned a
\* RouteResult resumes, upsertRoute is not called with DEFAULT_ROUTE and
\* DEFAULT_ROUTE does not become the displayed route, also when applying the
\* fetched route to the map throws.
C23_FallbackOnlyOnFetchFailure ==
    [][\A i \in DOMAIN loads' :
          (SettlesInStep(i) /\ OutcomeAfter(i).ok)
          => /\ ~(routeCalls' # routeCalls /\ routeCalls'.latest = Some(DEFAULT_ROUTE))
             /\ ~(routeSource' # routeSource /\ routeSource' = Some(DEFAULT_ROUTE))]_vars

\* C24: with no map (before the effect has run, when VITE_MAPBOX_TOKEN is
\* missing so that the effect creates none, after the cleanup of the effect)
\* addRandomBuilding, setRoute and resetRoute do nothing. No step taken with no
\* map changes the building counter, the building registry, the buildings of
\* the map, the route points, the markers or the displayed route, and none
\* issues a request, be it an invocation of loadRoute, of
\* fetchRouteFeatureCollection or an HTTP request.
C24_HandleDoesNothingWithoutMap ==
    [][mapRef = NoMap
       => /\ UNCHANGED <<buildingCountRef, buildingRegistryRef, mapBuildings,
                         routePointsRef, startMarkerRef, endMarkerRef,
                         routeSource, routeLayer, routeCalls>>
          /\ Len(loads') = Len(loads)
          /\ Len(calls') = Len(calls)
          /\ \A c \in DOMAIN calls :
                 calls'[c].httpRequests = calls[c].httpRequests]_vars

\* C24 witness: the component has unmounted after addRandomBuilding, setRoute
\* and a request of style.load on its map: there is no map, one building is
\* counted and registered, both points are selected, a fetch is still pending.
\* The methods of the handle are enabled in this state and leave it as it is.
C24_Witness ==
    /\ phase = "unmounted"
    /\ mapRef = NoMap
    /\ buildingCountRef = Len(INITIAL_BUILDINGS) + 1
    /\ Len(buildingRegistryRef) = buildingCountRef
    /\ buildingRegistryRef[buildingCountRef].id = BuildingId("dynamic-", buildingCountRef)
    /\ routePointsRef = [start |-> Some(PointB), end |-> Some(PointA)]
    /\ Len(loads) = 2
    /\ loads[2].settled = "pending"
    /\ routeSource = None

====
